---- MODULE Spec2Model ----
(***************************************************************************)
(* SortEX (sortex_main.py): sorting of images and videos into "YYYY-MM"    *)
(* folders.  The module models                                             *)
(*   - the Live Photo grouper          (_pair_live_photos),                *)
(*   - the date resolver               (get_image_datetime and the video   *)
(*                                      branch of _worker),                *)
(*   - the collision-free path planner (ensure_unique_path),               *)
(*   - the worker                      (_worker, move_or_copy) running on  *)
(*                                      a small file system.               *)
(*                                                                         *)
(* A path is a record [dir, stem, ext].  A stem is a sequence: a base name *)
(* followed by the numeric suffixes appended to it, so <<"IMG", 1>> is the *)
(* stem "IMG_1".  The source root is the directory ".", every other        *)
(* directory is a direct child of the root.                                *)
(***************************************************************************)
EXTENDS Integers, Sequences, FiniteSets, TLC

VARIABLES
    mode,        \* which component the behaviour exercises
    pc,          \* where that component stands
    gFiles,      \* grouper: the list handed to _pair_live_photos
    gResult,     \* grouper: its result (pairs, singles)
    uExists,     \* path planner: the paths that exist
    uTarget,     \* path planner: the path asked for
    uBefore,     \* path planner: the paths that existed before the latest call
    uReturned,   \* path planner: the paths returned so far, in call order
    dFile,       \* date resolver: the file's attributes
    dIsImage,    \* date resolver: the file is image-kind
    dResult,     \* date resolver: the result (dt, source)
    fs,          \* worker: the files that exist, path -> attributes
    dirs,        \* worker: the directories that exist under the root
    copy_mode,   \* worker: option "Copy files instead of moving"
    include_unknown,  \* worker: option "Place files without date in unknown-date"
    process_subdirs,  \* worker: option "Include subfolders"
    faulty,      \* worker: the source files whose copy or move raises
    runs,        \* worker: the runs started so far
    dry_run,     \* worker: the current (or latest) run is a test run
    plan,        \* worker: the pairs and the singles of the current run
    pairs,       \* worker: the pairs not processed yet
    singles,     \* worker: the singles not processed yet
    log,         \* worker: the outcome lines of the current run
    fsAtStart,   \* worker: fs when the current run started
    dirsAtStart, \* worker: dirs when the current run started
    prevDry,     \* worker: dry_run of the run before
    prevLog      \* worker: log of the run before

gVars == <<gFiles, gResult>>
uVars == <<uExists, uTarget, uBefore, uReturned>>
dVars == <<dFile, dIsImage, dResult>>
optVars == <<copy_mode, include_unknown, process_subdirs, faulty>>
runVars == <<runs, dry_run, plan, pairs, singles, log, fsAtStart, dirsAtStart,
             prevDry, prevLog>>
wVars == <<fs, dirs, optVars, runVars>>
vars == <<mode, pc, gVars, uVars, dVars, wVars>>

-----------------------------------------------------------------------------
(* Extensions and kinds                                                    *)

IMAGE_EXTS == {".jpg", ".jpeg", ".png", ".tif", ".tiff", ".heic", ".heif", ".webp"}
VIDEO_EXTS == {".mov", ".mp4", ".avi", ".mpeg"}
IGNORE_EXTS == {".aae"}
UNKNOWN_DIR_NAME == "unknown-date"

\* The extensions of the model's files, with their character codes.
ExtChars ==
    ( ".JPG" :> <<46, 74, 80, 71>> ) @@
    ( ".jpg" :> <<46, 106, 112, 103>> ) @@
    ( ".png" :> <<46, 112, 110, 103>> ) @@
    ( ".mov" :> <<46, 109, 111, 118>> ) @@
    ( ".mp4" :> <<46, 109, 112, 52>> ) @@
    ( ".aae" :> <<46, 97, 97, 101>> ) @@
    ( ".txt" :> <<46, 116, 120, 116>> )

\* str.lower() on one character code and on an extension of the model.
LowerChar(c) == IF c >= 65 /\ c <= 90 THEN c + 32 ELSE c

Lower(ext) ==
    LET low == [i \in 1..Len(ExtChars[ext]) |-> LowerChar(ExtChars[ext][i])]
    IN  CHOOSE e \in DOMAIN ExtChars : ExtChars[e] = low

is_image_file(p) == Lower(p.ext) \in IMAGE_EXTS
is_video_file(p) == Lower(p.ext) \in VIDEO_EXTS
is_media_file(p) == Lower(p.ext) \in IMAGE_EXTS \/ Lower(p.ext) \in VIDEO_EXTS

\* Lexicographic order on sequences of character codes.
RECURSIVE LexLess(_, _)
LexLess(s, t) ==
    IF t = <<>> THEN FALSE
    ELSE IF s = <<>> THEN TRUE
    ELSE IF Head(s) # Head(t) THEN Head(s) < Head(t)
    ELSE LexLess(Tail(s), Tail(t))

\* The order sorted() puts on the paths of one (directory, stem) bucket:
\* they agree up to the extension, so the extension decides.
PathLess(p, q) == LexLess(ExtChars[p.ext], ExtChars[q.ext])

-----------------------------------------------------------------------------
(* Grouper: _pair_live_photos                                              *)

Range(s) == {s[i] : i \in 1..Len(s)}

\* list(dict.fromkeys(s)): drop repeats, keep first-seen order.
RECURSIVE Dedup(_)
Dedup(s) ==
    IF s = <<>> THEN <<>>
    ELSE LET r == Dedup(SubSeq(s, 1, Len(s) - 1))
             x == s[Len(s)]
         IN  IF x \in Range(r) THEN r ELSE Append(r, x)

\* The (parent, stem) buckets in the iteration order of by_dir: parents in
\* first-seen order, the stems of one parent in first-seen order.
BucketKeys(fl) ==
    LET parents == Dedup([i \in 1..Len(fl) |-> fl[i].dir])
        StemsOf(d) ==
            LET inDir(p) == p.dir = d
                here == SelectSeq(fl, inDir)
            IN  Dedup([i \in 1..Len(here) |-> here[i].stem])
        RECURSIVE Walk(_)
        Walk(k) ==
            IF k > Len(parents) THEN <<>>
            ELSE [i \in 1..Len(StemsOf(parents[k])) |->
                     [dir |-> parents[k], stem |-> StemsOf(parents[k])[i]]]
                 \o Walk(k + 1)
    IN  Walk(1)

\* pairs.setdefault(master, []).extend(vids) on an insertion-ordered dict.
SetDefaultExtend(ps, master, vids) ==
    IF \E i \in 1..Len(ps) : ps[i].master = master
    THEN [i \in 1..Len(ps) |->
             IF ps[i].master = master
             THEN [ps[i] EXCEPT !.videos = @ \o vids]
             ELSE ps[i]]
    ELSE Append(ps, [master |-> master, videos |-> vids])

\* The demoted images of a pairing bucket: the loop "for extra_img in
\* images[1:]" runs over the images in enumeration order, not sorted order.
ExtraImages(images) == Tail(images)

\* A plausible slip: the first image in enumeration order becomes the master.
ChooseMaster_first(images) == images[1]

\* master = sorted(images)[0]
ChooseMaster(images) == SortSeq(images, PathLess)[1]

\* One iteration of "for stem, items in stems.items()".
BucketStep(acc, items) ==
    LET images == SelectSeq(items, is_image_file)
        videos == SelectSeq(items, is_video_file)
    IN  IF images # <<>> /\ videos # <<>>
        THEN LET master == ChooseMaster(images)
             IN  [pairs   |-> SetDefaultExtend(acc.pairs, master, SortSeq(videos, PathLess)),
                  singles |-> acc.singles \o ExtraImages(images)]
        ELSE [pairs |-> acc.pairs, singles |-> acc.singles \o items]

_pair_live_photos(fl) ==
    LET keys == BucketKeys(fl)
        Items(k) ==
            LET inBucket(p) == p.dir = keys[k].dir /\ p.stem = keys[k].stem
            IN  SelectSeq(fl, inBucket)
        RECURSIVE Fold(_)
        Fold(k) ==
            IF k = 0 THEN [pairs |-> <<>>, singles |-> <<>>]
            ELSE BucketStep(Fold(k - 1), Items(k))
        raw == Fold(Len(keys))
        in_pairs == UNION {{raw.pairs[i].master} \cup Range(raw.pairs[i].videos)
                              : i \in 1..Len(raw.pairs)}
        notPaired(p) == p \notin in_pairs
    IN  [pairs   |-> raw.pairs,
         singles |-> SelectSeq(Dedup(raw.singles), notPaired)]

-----------------------------------------------------------------------------
(* Path planner: build_target_dirname, ensure_unique_path                  *)

\* parent / f"{stem}_{i}{suffix}"
Candidate(target, i) == [target EXCEPT !.stem = Append(@, i)]

\* A plausible slip: the first candidate is returned without looking at it.
ensure_unique_path_unchecked(exists, target) ==
    IF target \notin exists THEN target ELSE Candidate(target, 1)

\* exists: the paths for which Path.exists() holds.
ensure_unique_path(exists, target) ==
    LET RECURSIVE Probe(_)
        Probe(i) ==
            IF Candidate(target, i) \notin exists
            THEN Candidate(target, i)
            ELSE Probe(i + 1)
    IN  IF target \notin exists THEN target ELSE Probe(1)

\* f"{dt.year:02d}-{dt.month:02d}" for the months of the model.
build_target_dirname(dt) ==
    CASE dt.year = 2024 /\ dt.month = 1 -> "2024-01"
      [] dt.year = 2024 /\ dt.month = 2 -> "2024-02"
      [] dt.year = 2023 /\ dt.month = 12 -> "2023-12"

-----------------------------------------------------------------------------
(* Date resolver: parse_exif_datetime, get_image_datetime                  *)

\* The value None where a datetime is expected, and where a source is.
NoneDt == [year |-> 0, month |-> 0, day |-> 0]
NoneSource == "None"

_EXIF_DATETIME_CANDIDATES == <<"DateTimeOriginal", "CreateDate", "DateTimeDigitized", "DateTime">>

\* A raw tag value is a text: a date written with the separator sep, with
\* or without seconds; EmptyValue is the empty string.
EmptyValue == [sep |-> "", secs |-> FALSE, dt |-> NoneDt]

\* The formats of parse_exif_datetime, in the order they are tried:
\* "%Y:%m:%d %H:%M:%S", "%Y:%m:%d %H:%M", "%Y-%m-%d %H:%M:%S", ...
fmts ==
    << [sep |-> ":", secs |-> TRUE], [sep |-> ":", secs |-> FALSE],
       [sep |-> "-", secs |-> TRUE], [sep |-> "-", secs |-> FALSE],
       [sep |-> "/", secs |-> TRUE], [sep |-> "/", secs |-> FALSE] >>

\* datetime.strptime(value, fmt) succeeds.
Matches(value, fmt) == value.sep = fmt.sep /\ value.secs = fmt.secs

parse_exif_datetime(value) ==
    LET RECURSIVE Try(_)
        Try(k) ==
            IF k > Len(fmts) THEN NoneDt
            ELSE IF Matches(value, fmts[k]) THEN value.dt
            ELSE Try(k + 1)
    IN  IF value = EmptyValue THEN NoneDt ELSE Try(1)

\* path.stat().st_mtime, datetime.fromtimestamp: (dt, "mtime"), or
\* (None, None) when stat raises.
StatMtime(file) ==
    IF file.mtime # NoneDt
    THEN [dt |-> file.mtime, source |-> "mtime"]
    ELSE [dt |-> NoneDt, source |-> NoneSource]

\* A plausible slip: the first candidate tag that is present decides, also
\* when it does not parse.
get_image_datetime_firstpresent(file) ==
    LET present == SelectSeq(_EXIF_DATETIME_CANDIDATES, LAMBDA k : k \in DOMAIN file.exif)
    IN  IF file.opens /\ present # <<>> /\ parse_exif_datetime(file.exif[present[1]]) # NoneDt
        THEN [dt |-> parse_exif_datetime(file.exif[present[1]]), source |-> "exif"]
        ELSE StatMtime(file)

\* file.opens: Image.open and getexif succeed; file.exif: tag name -> value.
get_image_datetime(file) ==
    LET RECURSIVE Scan(_)
        Scan(k) ==
            IF k > Len(_EXIF_DATETIME_CANDIDATES) THEN StatMtime(file)
            ELSE LET key == _EXIF_DATETIME_CANDIDATES[k]
                 IN  IF key \in DOMAIN file.exif
                        /\ parse_exif_datetime(file.exif[key]) # NoneDt
                     THEN [dt |-> parse_exif_datetime(file.exif[key]), source |-> "exif"]
                     ELSE Scan(k + 1)
    IN  IF file.opens THEN Scan(1) ELSE StatMtime(file)

\* The date of a single in _worker: get_image_datetime for an image, the
\* modification time for anything else.
ResolveSingle(file, isImage) ==
    IF isImage THEN get_image_datetime(file) ELSE StatMtime(file)

-----------------------------------------------------------------------------
(* The values a component has while another one is exercised               *)

NoPath == [dir |-> "", stem |-> <<>>, ext |-> ""]
NoFile == [opens |-> FALSE, exif |-> <<>>, mtime |-> NoneDt]
NoGrouping == [pairs |-> <<>>, singles |-> <<>>]
NoPlan == [pairs |-> {}, singles |-> {}]

gIdle == gFiles = <<>> /\ gResult = NoGrouping
uIdle == uExists = {} /\ uTarget = NoPath /\ uBefore = {} /\ uReturned = <<>>
dIdle == dFile = NoFile /\ dIsImage = FALSE /\ dResult = [dt |-> NoneDt, source |-> NoneSource]
wIdle ==
    /\ fs = <<>> /\ dirs = {} /\ fsAtStart = <<>> /\ dirsAtStart = {}
    /\ copy_mode = FALSE /\ include_unknown = TRUE /\ process_subdirs = TRUE
    /\ faulty = {} /\ runs = 0 /\ dry_run = FALSE /\ prevDry = FALSE
    /\ plan = NoPlan /\ pairs = {} /\ singles = {}
    /\ log = {} /\ prevLog = {}

-----------------------------------------------------------------------------
(* The grouper on its own: every list of distinct media files              *)

MaxGroupFiles == 3

GroupDirs == {".", "sub"}
GroupStems == {<<"IMG_01">>, <<"IMG_02">>}
GroupExts == {".JPG", ".jpg", ".png", ".mov", ".mp4"}
GroupPaths == [dir : GroupDirs, stem : GroupStems, ext : GroupExts]

\* The lists of distinct elements of S with at most n elements.
DistinctLists(S, n) ==
    UNION {{s \in [1..k -> S] : \A i, j \in 1..k : i # j => s[i] # s[j]} : k \in 0..n}

InitGroup ==
    /\ mode = "group" /\ pc = "ready"
    /\ gFiles \in DistinctLists(GroupPaths, MaxGroupFiles)
    /\ gResult = NoGrouping
    /\ uIdle /\ dIdle /\ wIdle

\* pairs, singles = self._pair_live_photos(files)
PairLivePhotos ==
    /\ mode = "group" /\ pc = "ready"
    /\ gResult' = _pair_live_photos(gFiles)
    /\ pc' = "done"
    /\ UNCHANGED <<mode, gFiles, uVars, dVars, wVars>>

NextGroup == PairLivePhotos

SpecGroup == InitGroup /\ [][NextGroup]_vars

Count(s, x) == Cardinality({i \in 1..Len(s) : s[i] = x})

\* How often a file occurs in a grouping: as a master key, in a companion
\* list, in singles.
Places(r, f) ==
    Cardinality({i \in 1..Len(r.pairs) : r.pairs[i].master = f})
    + Cardinality({ij \in (1..Len(r.pairs)) \X (1..MaxGroupFiles + 1) :
                      /\ ij[2] <= Len(r.pairs[ij[1]].videos)
                      /\ r.pairs[ij[1]].videos[ij[2]] = f})
    + Count(r.singles, f)

\* C1: every input file of the grouper ends up in exactly one place of the
\* result (master of one pair, companion of one pair, or once in singles);
\* no input file is dropped.
C1_EveryFileInExactlyOnePlace ==
    (mode = "group" /\ pc = "done") =>
        \A f \in Range(gFiles) : Places(gResult, f) = 1

\* The members of the bucket of (d, s).
BucketOf(fl, d, s) == {f \in Range(fl) : f.dir = d /\ f.stem = s}

IsSortedSeq(s) == \A i \in 1..Len(s) - 1 : PathLess(s[i], s[i + 1])

PairsOfBucket(r, B) == {i \in 1..Len(r.pairs) : r.pairs[i].master \in B}

\* C9: a bucket with an image and a video yields exactly one pair, its
\* master the smallest image path, its companions all the bucket's videos in
\* ascending order; a bucket of images only or of videos only yields no pair
\* and each of its members is a single.
C9_PairPerBucket ==
    (mode = "group" /\ pc = "done") =>
        \A d \in GroupDirs, s \in GroupStems :
            LET B == BucketOf(gFiles, d, s)
                imgs == {f \in B : is_image_file(f)}
                vids == {f \in B : is_video_file(f)}
                own == PairsOfBucket(gResult, B)
            IN  IF imgs # {} /\ vids # {}
                THEN /\ Cardinality(own) = 1
                     /\ \A i \in own :
                          /\ gResult.pairs[i].master \in imgs
                          /\ \A q \in imgs : ~PathLess(q, gResult.pairs[i].master)
                          /\ Range(gResult.pairs[i].videos) = vids
                          /\ Len(gResult.pairs[i].videos) = Cardinality(vids)
                          /\ IsSortedSeq(gResult.pairs[i].videos)
                ELSE /\ own = {}
                     /\ \A i \in 1..Len(gResult.pairs) :
                            Range(gResult.pairs[i].videos) \cap B = {}
                     /\ \A f \in B : Count(gResult.singles, f) = 1

\* The example of the specification: IMG_01.jpg, IMG_01.mov, IMG_02.jpg.
C9_Witness ==
    /\ mode = "group" /\ pc = "done"
    /\ gFiles = << [dir |-> ".", stem |-> <<"IMG_01">>, ext |-> ".jpg"],
                   [dir |-> ".", stem |-> <<"IMG_01">>, ext |-> ".mov"],
                   [dir |-> ".", stem |-> <<"IMG_02">>, ext |-> ".jpg"] >>
    /\ gResult = [pairs |-> << [master |-> [dir |-> ".", stem |-> <<"IMG_01">>, ext |-> ".jpg"],
                               videos |-> << [dir |-> ".", stem |-> <<"IMG_01">>, ext |-> ".mov"] >>] >>,
                  singles |-> << [dir |-> ".", stem |-> <<"IMG_02">>, ext |-> ".jpg"] >>]

-----------------------------------------------------------------------------
(* The path planner on its own: repeated calls for one target, the caller  *)
(* creating the returned file after each call                              *)

MaxCalls == 3

UniqueTargets ==
    { [dir |-> "2024-01", stem |-> <<"IMG">>, ext |-> ".jpg"],
      [dir |-> "2024-01", stem |-> <<"IMG", 1>>, ext |-> ".jpg"] }

UniquePaths ==
    [dir : {"2024-01"}, stem : {<<"IMG">>, <<"IMG", 1>>, <<"IMG", 2>>, <<"IMG", 1, 1>>}, ext : {".jpg"}]
    \cup [dir : {"2024-01"}, stem : {<<"IMG">>, <<"IMG", 1>>}, ext : {".mov"}]

InitUnique ==
    /\ mode = "unique" /\ pc = "ready"
    /\ uExists \in SUBSET UniquePaths
    /\ uTarget \in UniqueTargets
    /\ uBefore = {} /\ uReturned = <<>>
    /\ gIdle /\ dIdle /\ wIdle

\* final_target = ensure_unique_path(target), then the file is written there.
EnsureUniquePath ==
    /\ mode = "unique"
    /\ Len(uReturned) < MaxCalls
    /\ LET r == ensure_unique_path(uExists, uTarget)
       IN  /\ uBefore' = uExists
           /\ uExists' = uExists \cup {r}
           /\ uReturned' = Append(uReturned, r)
    /\ UNCHANGED <<mode, pc, uTarget, gVars, dVars, wVars>>

NextUnique == EnsureUniquePath

SpecUnique == InitUnique /\ [][NextUnique]_vars

\* p is target with one numeric suffix appended to its stem.
IsSuffixed(p, target) ==
    /\ p.dir = target.dir /\ p.ext = target.ext
    /\ Len(p.stem) = Len(target.stem) + 1
    /\ SubSeq(p.stem, 1, Len(target.stem)) = target.stem
    /\ p.stem[Len(p.stem)] >= 1

SuffixOf(p) == p.stem[Len(p.stem)]

\* C8: ensure_unique_path returns the target itself when nothing exists
\* there, otherwise <stem>_<i><ext> for the smallest i >= 1 that is free; the
\* returned path does not exist when it is returned; repeated calls for one
\* occupied target return strictly increasing suffixes.
C8_EnsureUniquePath ==
    (mode = "unique" /\ uReturned # <<>>) =>
        LET r == uReturned[Len(uReturned)]
        IN  /\ r \notin uBefore
            /\ (uTarget \notin uBefore => r = uTarget)
            /\ (uTarget \in uBefore =>
                    /\ IsSuffixed(r, uTarget)
                    /\ \A j \in 1..(SuffixOf(r) - 1) : Candidate(uTarget, j) \in uBefore)
            /\ \A k \in 2..Len(uReturned) :
                   (IsSuffixed(uReturned[k - 1], uTarget) /\ IsSuffixed(uReturned[k], uTarget))
                       => SuffixOf(uReturned[k - 1]) < SuffixOf(uReturned[k])

\* Target and its _1 occupied from the start: the calls return _2 then _3.
C8_Witness ==
    /\ mode = "unique"
    /\ Len(uReturned) = 2
    /\ uReturned[1] = Candidate(uTarget, 2)
    /\ uReturned[2] = Candidate(uTarget, 3)

-----------------------------------------------------------------------------
(* The date resolver on its own                                            *)

Jan == [year |-> 2024, month |-> 1, day |-> 15]
Feb == [year |-> 2024, month |-> 2, day |-> 3]
Dec == [year |-> 2023, month |-> 12, day |-> 31]

\* "2024:01:15 10:00:00", "2024/02/03 10:00", "2023.12.31 10:00:00", "".
RawValues ==
    { [sep |-> ":", secs |-> TRUE, dt |-> Jan],
      [sep |-> "/", secs |-> FALSE, dt |-> Feb],
      [sep |-> ".", secs |-> TRUE, dt |-> Dec],
      EmptyValue }

ExifMaps == UNION {[S -> RawValues] : S \in SUBSET Range(_EXIF_DATETIME_CANDIDATES)}

DateFiles == [opens : BOOLEAN, exif : ExifMaps, mtime : {Jan, Dec, NoneDt}]

InitDate ==
    /\ mode = "date" /\ pc = "ready"
    /\ dFile \in DateFiles
    /\ dIsImage \in BOOLEAN
    /\ dResult = [dt |-> NoneDt, source |-> NoneSource]
    /\ gIdle /\ uIdle /\ wIdle

\* dt, source = get_image_datetime(path), or the video branch of _worker.
ResolveDate ==
    /\ mode = "date" /\ pc = "ready"
    /\ dResult' = ResolveSingle(dFile, dIsImage)
    /\ pc' = "done"
    /\ UNCHANGED <<mode, dFile, dIsImage, gVars, uVars, wVars>>

NextDate == ResolveDate

SpecDate == InitDate /\ [][NextDate]_vars

\* The text is a date in one of the accepted formats.
Parseable(v) == v # EmptyValue /\ v.sep \in {":", "-", "/"}

\* Candidate tag number k is present and parses.
Usable(file, k) ==
    /\ _EXIF_DATETIME_CANDIDATES[k] \in DOMAIN file.exif
    /\ Parseable(file.exif[_EXIF_DATETIME_CANDIDATES[k]])

\* C10: an image gets the value of the first candidate tag (DateTimeOriginal,
\* CreateDate, DateTimeDigitized, DateTime) that is present and parses, with
\* source exif; when reading fails or no candidate parses, the modification
\* time with source mtime; when that is unavailable, none.  A video gets the
\* modification time or none, whatever its metadata.
C10_FallbackChain ==
    (mode = "date" /\ pc = "done") =>
        LET usable == {k \in 1..4 : Usable(dFile, k)}
        IN  IF dIsImage /\ dFile.opens /\ usable # {}
            THEN \E k \in usable :
                    /\ \A j \in usable : k <= j
                    /\ dResult = [dt |-> dFile.exif[_EXIF_DATETIME_CANDIDATES[k]].dt,
                                  source |-> "exif"]
            ELSE IF dFile.mtime # NoneDt
            THEN dResult = [dt |-> dFile.mtime, source |-> "mtime"]
            ELSE dResult = [dt |-> NoneDt, source |-> NoneSource]

\* An image whose DateTimeOriginal is present but does not parse and whose
\* DateTime parses: the date comes from DateTime.
C10_Witness ==
    /\ mode = "date" /\ pc = "done" /\ dIsImage /\ dFile.opens
    /\ DOMAIN dFile.exif = {"DateTimeOriginal", "DateTime"}
    /\ dFile.exif["DateTimeOriginal"] = [sep |-> ".", secs |-> TRUE, dt |-> Dec]
    /\ dFile.exif["DateTime"] = [sep |-> "/", secs |-> FALSE, dt |-> Feb]
    /\ dFile.mtime = Jan
    /\ dResult = [dt |-> Feb, source |-> "exif"]

-----------------------------------------------------------------------------
(* The worker: _collect_files, move_or_copy, _worker                       *)

RootDir == "."

Put(f, k, v) == [x \in DOMAIN f \cup {k} |-> IF x = k THEN v ELSE f[x]]
Remove(f, k) == [x \in DOMAIN f \ {k} |-> f[x]]

\* src.rglob("*") or src.glob("*"), filtered: the set of files listed.
_collect_files(f, subdirs) ==
    {p \in DOMAIN f :
        /\ subdirs \/ p.dir = RootDir
        /\ is_media_file(p)
        /\ Lower(p.ext) \notin IGNORE_EXTS}

\* The action word of an outcome line.
ActionWord(dry, copy) ==
    IF dry THEN (IF copy THEN "Would copy" ELSE "Would move")
    ELSE (IF copy THEN "Copied" ELSE "Moved")

\* A plausible slip: the target directory is made in a test run too.
MkdirWanted_always(dry) == TRUE

\* "if not dry_run: target_dir.mkdir(parents=True, exist_ok=True)"
MkdirWanted(dry) == ~dry

\* move_or_copy(path, target_dir) on the file system (f, d).  raised: the
\* copy or move raised; existed: the final target existed when it was chosen.
move_or_copy(f, d, dry, copy, bad, path, target_dir) ==
    LET d1 == IF MkdirWanted(dry) THEN d \cup {target_dir} ELSE d
        target == [dir |-> target_dir, stem |-> path.stem, ext |-> path.ext]
        final_target == ensure_unique_path(DOMAIN f, target)
        res(f2, r) == [fs |-> f2, dirs |-> d1, final |-> final_target, raised |-> r,
                       existed |-> final_target \in DOMAIN f]
    IN  IF dry THEN res(f, FALSE)
        ELSE IF path \in bad THEN res(f, TRUE)
        ELSE IF copy THEN res(Put(f, final_target, f[path]), FALSE)
        ELSE res(Put(Remove(f, path), final_target, f[path]), FALSE)

\* One outcome line.
Line(kind, path, dirname, final, source, paired, existed, action) ==
    [kind |-> kind, src |-> path, folder |-> dirname, dest |-> final,
     source |-> source, paired |-> paired, existed |-> existed, action |-> action]

DoneLine == Line("done", NoPath, "", NoPath, NoneSource, FALSE, FALSE, "")
NoMediaLine == Line("nomedia", NoPath, "", NoPath, NoneSource, FALSE, FALSE, "")
SkipLine(path) == Line("skip", path, "", NoPath, NoneSource, FALSE, FALSE, "Skipping")
ErrorLine(path) == Line("error", path, "", NoPath, NoneSource, FALSE, FALSE, "Error")

\* A plausible slip: a companion video is filed under its own date.
CompanionDirname_own(dirname, video) ==
    IF video.mtime # NoneDt THEN build_target_dirname(video.mtime) ELSE UNKNOWN_DIR_NAME

\* "for v in videos: final_v = move_or_copy(v, target_dir)": the folder
\* of a companion video is the folder of its master.
CompanionDirname(dirname, video) == dirname

\* self._log(msg): the line joins the lines of the run.
Emit(lines, line) == lines \cup {line}

\* One iteration of "for master_img, videos in pairs.items()" from the
\* state st = (fs, dirs, log); raised: an exception left the loop.
PairStep(st, pr, dry, copy, unknown, bad) ==
    LET master == pr.master
        r == IF is_image_file(master) THEN get_image_datetime(st.fs[master])
             ELSE [dt |-> NoneDt, source |-> NoneSource]
        dirname == IF r.dt # NoneDt THEN build_target_dirname(r.dt) ELSE UNKNOWN_DIR_NAME
        action == ActionWord(dry, copy)
        m == move_or_copy(st.fs, st.dirs, dry, copy, bad, master, dirname)
        afterMaster ==
            [fs |-> m.fs, dirs |-> m.dirs, raised |-> m.raised,
             log |-> IF m.raised THEN st.log
                     ELSE Emit(st.log, Line("relocate", master, dirname, m.final,
                                              r.source, FALSE, m.existed, action))]
        RECURSIVE Videos(_, _)
        Videos(cur, k) ==
            IF cur.raised \/ k > Len(pr.videos) THEN cur
            ELSE LET v == pr.videos[k]
                     vdir == CompanionDirname(dirname, cur.fs[v])
                     mv == move_or_copy(cur.fs, cur.dirs, dry, copy, bad, v, vdir)
                 IN  Videos([fs |-> mv.fs, dirs |-> mv.dirs, raised |-> mv.raised,
                             log |-> IF mv.raised THEN cur.log
                                     ELSE Emit(cur.log, Line("relocate", v, vdir, mv.final,
                                                               NoneSource, TRUE, mv.existed, action))],
                            k + 1)
    IN  IF r.dt = NoneDt /\ ~unknown
        THEN [fs |-> st.fs, dirs |-> st.dirs, raised |-> FALSE,
              log |-> Emit(st.log, SkipLine(master))]
        ELSE Videos(afterMaster, 1)

\* One iteration of "for path in singles"; an exception is caught and
\* logged.
SingleStep(st, path, dry, copy, unknown, bad) ==
    LET r == ResolveSingle(st.fs[path], is_image_file(path))
        dirname == IF r.dt # NoneDt THEN build_target_dirname(r.dt) ELSE UNKNOWN_DIR_NAME
        m == move_or_copy(st.fs, st.dirs, dry, copy, bad, path, dirname)
    IN  IF r.dt = NoneDt /\ ~unknown
        THEN [fs |-> st.fs, dirs |-> st.dirs, log |-> Emit(st.log, SkipLine(path))]
        ELSE [fs |-> m.fs, dirs |-> m.dirs,
              log |-> IF m.raised THEN Emit(st.log, ErrorLine(path))
                      ELSE Emit(st.log, Line("relocate", path, dirname, m.final,
                                               r.source, FALSE, m.existed,
                                               ActionWord(dry, copy)))]

-----------------------------------------------------------------------------
(* The worker on a small file system                                       *)

MaxInitFiles == 2
MaxFiles == 4
MaxRuns == 2
MaxFaulty == 1

\* The media files the source folder may hold at first, and the sidecar
\* file it always holds.
InitPaths ==
    { [dir |-> RootDir, stem |-> <<"IMG">>, ext |-> ".jpg"],
      [dir |-> RootDir, stem |-> <<"IMG">>, ext |-> ".mov"],
      [dir |-> "sub", stem |-> <<"IMG">>, ext |-> ".jpg"],
      [dir |-> "2024-01", stem |-> <<"IMG">>, ext |-> ".jpg"] }

Sidecar == [dir |-> RootDir, stem |-> <<"IMG">>, ext |-> ".aae"]

\* An image with a capture date of January in its metadata, an image (or
\* video) with a modification time only, a file without any date.
WithExif ==
    [opens |-> TRUE,
     exif |-> [t \in {"DateTimeOriginal"} |-> [sep |-> ":", secs |-> TRUE, dt |-> Jan]],
     mtime |-> Feb]
MtimeFeb == [opens |-> TRUE, exif |-> <<>>, mtime |-> Feb]
MtimeJan == [opens |-> FALSE, exif |-> <<>>, mtime |-> Jan]
Undated == [opens |-> FALSE, exif |-> <<>>, mtime |-> NoneDt]

InitAttrs(p) ==
    IF is_image_file(p) THEN {WithExif, MtimeFeb, Undated} ELSE {MtimeJan, Undated}

InitFileSystems ==
    UNION { {Put(f, Sidecar, MtimeJan) :
                f \in {g \in [S -> {WithExif, MtimeFeb, MtimeJan, Undated}] :
                          \A p \in S : g[p] \in InitAttrs(p)}}
            : S \in {T \in SUBSET InitPaths : Cardinality(T) <= MaxInitFiles} }

Init ==
    /\ mode = "worker" /\ pc = "idle"
    /\ fs \in InitFileSystems
    /\ dirs = {RootDir} \cup {p.dir : p \in DOMAIN fs}
    /\ copy_mode \in BOOLEAN
    /\ include_unknown \in BOOLEAN
    /\ process_subdirs \in BOOLEAN
    /\ faulty \in {B \in SUBSET (DOMAIN fs \ {Sidecar}) : Cardinality(B) <= MaxFaulty}
    /\ runs = 0 /\ dry_run = FALSE /\ prevDry = FALSE
    /\ plan = NoPlan /\ pairs = {} /\ singles = {}
    /\ log = {} /\ prevLog = {}
    /\ fsAtStart = fs /\ dirsAtStart = dirs
    /\ gIdle /\ uIdle /\ dIdle

\* The orders in which the directory walk may list a set of files.
RECURSIVE Orderings(_)
Orderings(S) ==
    IF S = {} THEN {<<>>}
    ELSE UNION {{<<x>> \o s : s \in Orderings(S \ {x})} : x \in S}

\* The groupings _pair_live_photos can make of a set of files, over the
\* orders in which they may be listed, as the set of pairs and the set of
\* singles.
Plans(S) ==
    { [pairs |-> Range(g.pairs), singles |-> Range(g.singles)] :
        g \in {_pair_live_photos(fl) : fl \in Orderings(S)} }

\* _start_worker and the head of _worker, up to the first loop: the buttons
\* are disabled, the files are collected, in some order, and grouped.  The
\* loops of _worker follow the order of the listing, which is any order:
\* the pairs and the singles are kept as the sets still to be processed.
_start_worker(dry) ==
    /\ mode = "worker" /\ pc = "idle"
    /\ runs < MaxRuns
    /\ Cardinality(_collect_files(fs, process_subdirs)) <= MaxFiles
    /\ IF _collect_files(fs, process_subdirs) = {}
       THEN /\ plan' = NoPlan
            /\ log' = {NoMediaLine}
            /\ pc' = "idle"
       ELSE /\ plan' \in Plans(_collect_files(fs, process_subdirs))
            /\ log' = {}
            /\ pc' = "working"
    /\ pairs' = plan'.pairs
    /\ singles' = plan'.singles
    /\ runs' = runs + 1
    /\ dry_run' = dry
    /\ fsAtStart' = fs /\ dirsAtStart' = dirs
    /\ prevDry' = dry_run /\ prevLog' = log
    /\ UNCHANGED <<mode, fs, dirs, optVars, gVars, uVars, dVars>>

\* Button "Test run (no change)".
run_dry == _start_worker(TRUE)

\* Button "Run!".
run_sort == _start_worker(FALSE)

\* One pair of the first loop.  An exception leaves _worker through its
\* "finally": the buttons are enabled again, nothing more is processed.
ProcessPair ==
    /\ mode = "worker" /\ pc = "working"
    /\ \E pr \in pairs :
         LET st == PairStep([fs |-> fs, dirs |-> dirs, log |-> log], pr,
                            dry_run, copy_mode, include_unknown, faulty)
         IN  /\ fs' = st.fs /\ dirs' = st.dirs /\ log' = st.log
             /\ IF st.raised
                THEN pairs' = {} /\ singles' = {} /\ pc' = "idle"
                ELSE pairs' = pairs \ {pr} /\ singles' = singles /\ pc' = pc
    /\ UNCHANGED <<mode, optVars, runs, dry_run, plan, fsAtStart, dirsAtStart,
                   prevDry, prevLog, gVars, uVars, dVars>>

\* One single of the second loop, which starts when the first has ended.
ProcessSingle ==
    /\ mode = "worker" /\ pc = "working"
    /\ pairs = {}
    /\ \E path \in singles :
         LET st == SingleStep([fs |-> fs, dirs |-> dirs, log |-> log], path,
                              dry_run, copy_mode, include_unknown, faulty)
         IN  /\ fs' = st.fs /\ dirs' = st.dirs /\ log' = st.log
             /\ singles' = singles \ {path}
    /\ UNCHANGED <<mode, pc, optVars, runs, dry_run, plan, pairs, fsAtStart,
                   dirsAtStart, prevDry, prevLog, gVars, uVars, dVars>>

\* self._log("Done!") and _done.
Finish ==
    /\ mode = "worker" /\ pc = "working"
    /\ pairs = {} /\ singles = {}
    /\ log' = Emit(log, DoneLine)
    /\ pc' = "idle"
    /\ UNCHANGED <<mode, fs, dirs, optVars, runs, dry_run, plan, pairs, singles,
                   fsAtStart, dirsAtStart, prevDry, prevLog, gVars, uVars, dVars>>

Next == run_dry \/ run_sort \/ ProcessPair \/ ProcessSingle \/ Finish

Spec == Init /\ [][Next]_vars

TypeOK ==
    /\ pc \in {"idle", "working"}
    /\ runs \in 0..MaxRuns

-----------------------------------------------------------------------------
(* Properties of the worker                                                *)

Relocated(lines) == {e \in lines : e.kind = "relocate"}

RunEnded == mode = "worker" /\ pc = "idle" /\ runs > 0

Members(pr) == {pr.master} \cup Range(pr.videos)

PlanFiles == UNION {Members(pr) : pr \in plan.pairs} \cup plan.singles

\* The log has a line for the file, or for the skipped pair it belongs to.
Accounted(p) ==
    \/ \E e \in log : e.src = p
    \/ \E pr \in plan.pairs :
          p \in Range(pr.videos) /\ SkipLine(pr.master) \in log

\* C2: a failing copy or move of one item, be it a master, a companion
\* video or a single, is recorded for that item and every later item is still
\* processed: a run that has ended has a line for every file of its plan and
\* has logged "Done!".
C2_FailureDoesNotAbortRun ==
    (RunEnded /\ PlanFiles # {}) =>
        /\ DoneLine \in log
        /\ \A p \in PlanFiles : Accounted(p)

\* C3: a test run reports, for every file, the folder and the final name
\* that a real run started from the same state with the same options gives
\* it.
C3_TestRunPredictsRealRun ==
    (RunEnded /\ runs >= 2 /\ prevDry /\ ~dry_run) =>
        \A e \in Relocated(log) :
            \E t \in Relocated(prevLog) :
                t.src = e.src /\ t.folder = e.folder /\ t.dest = e.dest

\* C4: within one run, no destination exists when it is chosen and no two
\* items get the same destination, in a move run, a copy run and a test run.
C4_DestinationsDistinct ==
    mode = "worker" =>
        \A e \in Relocated(log) :
            /\ ~e.existed
            /\ \A o \in Relocated(log) : o.src # e.src => o.dest # e.dest

\* The folder the date of a pair's master stands for.
MasterFolder(pr) ==
    LET r == get_image_datetime(fsAtStart[pr.master])
    IN  IF r.dt # NoneDt THEN build_target_dirname(r.dt) ELSE UNKNOWN_DIR_NAME

MasterUndated(pr) == get_image_datetime(fsAtStart[pr.master]).dt = NoneDt

\* C5: a pair is decided as a unit from the date of its master: when the
\* master has no date and undated files are excluded, no member is relocated;
\* otherwise every line of a member names the folder of the master's date (or
\* the undated folder), whatever the video's own modification time; never is
\* one member relocated and another skipped.
C5_PairDecidedAsUnit ==
    mode = "worker" =>
        \A pr \in plan.pairs :
            LET lines == {e \in log : e.src \in Members(pr)}
            IN  /\ (MasterUndated(pr) /\ ~include_unknown) =>
                       \A e \in lines : e.kind = "skip" /\ e.src = pr.master
                /\ ~(MasterUndated(pr) /\ ~include_unknown) =>
                       \A e \in lines :
                           /\ e.kind = "relocate"
                           /\ e.folder = MasterFolder(pr)
                           /\ e.dest.dir = MasterFolder(pr)
                /\ ~(\E e, o \in lines : e.kind = "relocate" /\ o.kind = "skip")

\* A companion video modified in January has been filed under February, the
\* month of its master.
C5_Witness ==
    /\ RunEnded /\ ~dry_run
    /\ \E pr \in plan.pairs : \E e \in Relocated(log) :
          /\ e.src \in Range(pr.videos)
          /\ fsAtStart[e.src].mtime = Jan
          /\ e.folder = "2024-02"
          /\ e.dest \in DOMAIN fs

\* C7: a test run changes nothing: the files and the directories are those
\* the run started with.
C7_TestRunChangesNothing ==
    (mode = "worker" /\ runs > 0 /\ dry_run) =>
        fs = fsAtStart /\ dirs = dirsAtStart

\* A test run has ended that planned a relocation into a folder that does
\* not exist.
C7_Witness ==
    /\ RunEnded /\ dry_run /\ DoneLine \in log
    /\ \E e \in Relocated(log) : e.folder \notin dirs

\* The destination is the source's name with a numeric suffix.
HasSuffix(e) ==
    IsSuffixed(e.dest, [dir |-> e.folder, stem |-> e.src.stem, ext |-> e.src.ext])

CopyRunAfterCopyRun == RunEnded /\ runs >= 2 /\ copy_mode /\ ~dry_run /\ ~prevDry

\* C6 as stated: a copy run that follows a copy run overwrites nothing and
\* gives every destination a numeric suffix.
C6_SecondRunAllSuffixed ==
    CopyRunAfterCopyRun =>
        \A e \in Relocated(log) : ~e.existed /\ HasSuffix(e)

\* C6 as amended: a copy run that follows a copy run overwrites nothing,
\* and gives a numeric suffix to the destination of every file that the run
\* before copied into the same folder or that lies in its destination folder
\* already.
C6_SecondRunSuffixed ==
    CopyRunAfterCopyRun =>
        \A e \in Relocated(log) :
            /\ ~e.existed
            /\ ( \/ \E t \in Relocated(prevLog) : t.src = e.src /\ t.folder = e.folder
                 \/ e.src.dir = e.folder ) => HasSuffix(e)

\* The second copy run has filed a file of the first run, and the first
\* run's copy of it, under suffixed names.
C6_Witness ==
    /\ CopyRunAfterCopyRun /\ DoneLine \in log /\ DoneLine \in prevLog
    /\ \E e, o \in Relocated(log) :
          /\ HasSuffix(e) /\ HasSuffix(o)
          /\ \E t \in Relocated(prevLog) : t.src = e.src /\ t.folder = e.folder /\ t.dest = o.src

====
